---- MODULE Spec2Model ----
(***************************************************************************)
(* Model of fix-path.js: the PathFixer tool (scanner, mirror restructurer, *)
(* path-rewrite transformer) and the RemoveFooterSection tool (scanner,    *)
(* footer-removal transformer).                                            *)
(*                                                                         *)
(* File contents are sequences of tokens.  For the path-rewrite            *)
(* transformer a token is one character ("." and "/", the two quote        *)
(* characters) or one of the literal texts that the regular expressions    *)
(* of the code name as a whole ("www.miracles-of-quran.com", "href=",      *)
(* "src=").  For the footer-removal transformer a token is one of the      *)
(* HTML fragments its regular expressions and string searches name.        *)
(***************************************************************************)
EXTENDS Integers, Sequences, FiniteSets, TLC

VARIABLES
    \* ---- one HTML file under the two transformers
    content,        \* the file's text on disk
    before,         \* the file's text when the last pass read it
    filePath,       \* the path the last fixPathsInHtml pass was given
    tool,           \* "none", "fix" (PathFixer) or "footer" (RemoveFooterSection)
    passes,         \* number of passes applied to the file so far
    wrote,          \* the last pass called fs.writeFileSync
    processedFiles, \* this.processedFiles of the tool that ran
    \* ---- moveAndFixStructure over a directory tree
    fs,             \* the tree below sourceDir
    fs0,            \* the tree when moveAndFixStructure was called
    listReversed,   \* the order readdirSync lists names in
    pc,             \* where moveAndFixStructure is
    items,          \* what is left of the loop over the subdirectory's listing
    errors,         \* the items whose move was caught and logged (line 231)
    returned,       \* what moveAndFixStructure returned
    \* ---- getAllHtmlFiles over a directory tree
    visited,        \* the Set of path.resolve(dir) of the directories entered
    stack,          \* the calls of getAllHtmlFiles in progress, innermost first
    files,          \* the paths pushed so far, in the order of the result
    readLog,        \* the directories readdirSync has listed, by their real path
    steps           \* loop iterations, calls and returns so far

docVars == <<content, before, filePath, tool, passes, wrote, processedFiles>>
moveVars == <<fs, fs0, listReversed, pc, items, errors, returned>>
scanVars == <<visited, stack, files, readLog, steps>>
vars == <<docVars, moveVars, scanVars>>

----------------------------------------------------------------------------
(* Bounds *)

MaxLen == 3         \* longest text over all the path-rewrite tokens
MaxCoreLen == 6     \* longest text over ".", "/" and the double quote
MaxDocLen == 5      \* longest text of footer-removal tokens
MaxDepth == 3       \* deepest file below the root

----------------------------------------------------------------------------
(* Sequences *)

SeqsUpTo(S, n) == UNION {[1..k -> S] : k \in 0..n}

RECURSIVE Repeat(_, _)
Repeat(s, n) == IF n <= 0 THEN <<>> ELSE s \o Repeat(s, n - 1)

Drop(s, n) == SubSeq(s, n + 1, Len(s))

\* pat is a sequence of sets of tokens: a character class per position
MatchAt(s, pat) ==
    /\ Len(s) >= Len(pat)
    /\ \A i \in 1..Len(pat) : s[i] \in pat[i]

\* String.prototype.replace with a global regular expression: leftmost
\* matches, scanned left to right, never rescanning what was inserted
RECURSIVE ReplaceAll(_, _, _)
ReplaceAll(s, pat, rep) ==
    IF s = <<>> THEN <<>>
    ELSE IF MatchAt(s, pat) THEN rep \o ReplaceAll(Drop(s, Len(pat)), pat, rep)
    ELSE <<Head(s)>> \o ReplaceAll(Tail(s), pat, rep)

\* String.prototype.includes
Includes(s, sub) ==
    \E i \in 0..(Len(s) - Len(sub)) : SubSeq(s, i + 1, i + Len(sub)) = sub

----------------------------------------------------------------------------
(* PathFixer.fixPathsInHtml *)

DOT == "."
SLASH == "/"
DQ == "dquote"
SQ == "squote"
OLD_DOMAIN == "www.miracles-of-quran.com"    \* one token: no "../" lies in or across it
HREF == "href="
SRC == "src="

PathTokens == {DOT, SLASH, DQ, SQ, OLD_DOMAIN, HREF, SRC}
CoreTokens == {DOT, SLASH, DQ}

Traversal == <<DOT, DOT, SLASH>>          \* "../"
TraversalPat == <<{DOT}, {DOT}, {SLASH}>> \* /\.\.\//g

rootPath == <<"site">>

FilePaths == {rootPath \o Repeat(<<"dir">>, d) \o <<"page.html">> : d \in 0..MaxDepth}

\* path.relative(rootPath, filePath) for a file below rootPath
Relative(root, file) == Drop(file, Len(root))

DepthOffByOne(file) == Len(Relative(rootPath, file))

\* relativePath.split(path.sep).length - 1
Depth(file) == Len(Relative(rootPath, file)) - 1

\* what every "../" is replaced with at depth d
UpLevels(d) ==
    IF d = 0 THEN <<DOT, SLASH>>
    ELSE IF d = 1 THEN Traversal
    ELSE Repeat(Traversal, d)

FixTraversal(s, d) == ReplaceAll(s, TraversalPat, UpLevels(d))

FixDomain(s) ==
    LET r1 == ReplaceAll(s, <<{DQ, SQ}, {SLASH}, {OLD_DOMAIN}, {SLASH}>>, <<DQ, SLASH>>)
        r2 == ReplaceAll(r1, <<{DQ, SQ}, {OLD_DOMAIN}, {SLASH}>>, <<DQ, DOT, SLASH>>)
        r3 == ReplaceAll(r2, <<{HREF}, {DQ}, {OLD_DOMAIN}, {SLASH}>>, <<HREF, DQ, DOT, SLASH>>)
        r4 == ReplaceAll(r3, <<{SRC}, {DQ}, {OLD_DOMAIN}, {SLASH}>>, <<SRC, DQ, DOT, SLASH>>)
    IN  r4

FixedText(s, file) == FixDomain(FixTraversal(s, Depth(file)))

AlwaysChanged(new, old) == TRUE

\* content !== originalContent
ContentChanged(new, old) == new # old

\* one pass of fixPathsInHtml over the file: a first one, then a second
\* one over what the first left
FixPathsInHtml ==
    /\ passes < 2
    /\ tool \in {"none", "fix"}
    /\ \E p \in FilePaths :
          /\ passes > 0 => p = filePath
          /\ filePath' = p
          /\ LET new == FixedText(content, p) IN
                /\ before' = content
                /\ wrote' = ContentChanged(new, content)
                /\ content' = IF ContentChanged(new, content) THEN new ELSE content
                /\ processedFiles' = IF ContentChanged(new, content)
                                        THEN processedFiles + 1 ELSE processedFiles
    /\ tool' = "fix"
    /\ passes' = passes + 1
    /\ UNCHANGED <<moveVars, scanVars>>

----------------------------------------------------------------------------
(* RemoveFooterSection.processFile *)

GTE == "<div id=\"google_translate_element\"></div>"
GT_SCRIPT == "<script src=\"//translate.google.com/translate_a/element.js\"></script>"
FOOTER_OPEN == "<section class=\"footer3 cid-tJkSLE66e9\">"
SECTION_CLOSE == "</section>"
BODY_CLOSE == "</body>"
WRAP_OPEN == "<div style=...><div style=...>"
WRAP_CLOSE == "</div></div><style>...</style><script>...</script>"

DocTokens == {GTE, GT_SCRIPT, FOOTER_OPEN, SECTION_CLOSE, BODY_CLOSE}

\* the least i in 1..Len(s) with s[i] = t, or 0
IndexOf(s, t) ==
    IF \E i \in 1..Len(s) : s[i] = t
        THEN CHOOSE i \in 1..Len(s) : s[i] = t /\ \A j \in 1..(i - 1) : s[j] # t
        ELSE 0

\* content.match(/<div id="google_translate_element"><\/div>[\s\S]*?
\*                <script src=".*?translate_a\/element.*?<\/script>/)[0], or ''
GoogleTranslateMatch(s) ==
    LET i == IndexOf(s, GTE)
        rest == Drop(s, i)
        j == IndexOf(rest, GT_SCRIPT)
    IN  IF i = 0 \/ j = 0 THEN <<>> ELSE SubSeq(s, i, i + j)

\* content.includes('cid-tJkSLE66e9')
IncludesMarker(s) == \E i \in 1..Len(s) : s[i] = FOOTER_OPEN

\* content.replace(/<section[^>]*cid-tJkSLE66e9[^>]*>[\s\S]*?<\/section>/g, '')
RECURSIVE RemoveFooter(_)
RemoveFooter(s) ==
    IF s = <<>> THEN <<>>
    ELSE IF Head(s) = FOOTER_OPEN /\ IndexOf(Tail(s), SECTION_CLOSE) # 0
        THEN RemoveFooter(Drop(Tail(s), IndexOf(Tail(s), SECTION_CLOSE)))
    ELSE <<Head(s)>> \o RemoveFooter(Tail(s))

\* content.replace('</body>', `...${googleTranslateWidget}...</body>`): the
\* first occurrence only.  (A widget text holding "$&", "$1" and the like,
\* which replace() would expand, is outside the tokens.)
ReinsertWidget(s, widget) ==
    LET i == IndexOf(s, BODY_CLOSE) IN
    IF i = 0 THEN s
    ELSE SubSeq(s, 1, i - 1) \o <<WRAP_OPEN>> \o widget \o <<WRAP_CLOSE, BODY_CLOSE>>
            \o Drop(s, i)

ProcessedText(s) ==
    LET googleTranslateWidget == GoogleTranslateMatch(s)
        removed == IF IncludesMarker(s) THEN RemoveFooter(s) ELSE s
        changesMade == IncludesMarker(s) /\ removed # s
    IN  IF googleTranslateWidget # <<>> /\ changesMade
            THEN ReinsertWidget(removed, googleTranslateWidget)
            ELSE removed

ChangesMade(s) == IncludesMarker(s) /\ RemoveFooter(s) # s

\* one pass of processFile over the file, a first or a second one
ProcessFile ==
    /\ passes < 2
    /\ tool \in {"none", "footer"}
    /\ before' = content
    /\ wrote' = ChangesMade(content)
    /\ content' = IF ChangesMade(content) THEN ProcessedText(content) ELSE content
    /\ processedFiles' = IF ChangesMade(content) THEN processedFiles + 1 ELSE processedFiles
    /\ tool' = "footer"
    /\ passes' = passes + 1
    /\ UNCHANGED <<filePath, moveVars, scanVars>>

----------------------------------------------------------------------------
(* The file system, as PathFixer.moveAndFixStructure sees it *)

\* A node is a regular file with its text, or a directory with its entries
\* (a function from names to nodes).  NoNode is what a missing path holds.
File(c) == [kind |-> "file", content |-> c, ents |-> <<>>]
Dir(f) == [kind |-> "dir", content |-> <<>>, ents |-> f]
NoNode == [kind |-> "none", content |-> <<>>, ents |-> <<>>]

Names(node) == IF node.kind = "dir" THEN DOMAIN node.ents ELSE {}

\* path.join(dir, name)
Join(dir, name) == Append(dir, name)

Parent(p) == SubSeq(p, 1, Len(p) - 1)

RECURSIVE Lookup(_, _)
Lookup(node, p) ==
    IF p = <<>> THEN node
    ELSE IF Head(p) \in Names(node) THEN Lookup(node.ents[Head(p)], Tail(p))
    ELSE NoNode

\* the tree with the node at path p set to new (removed when new is NoNode)
RECURSIVE Update(_, _, _)
Update(node, p, new) ==
    IF p = <<>> THEN new
    ELSE LET n == Head(p)
             child == IF n \in Names(node) THEN node.ents[n] ELSE NoNode
             sub == Update(child, Tail(p), new)
         IN  IF sub.kind = "none"
                THEN Dir([m \in Names(node) \ {n} |-> node.ents[m]])
                ELSE Dir([m \in Names(node) \cup {n} |->
                            IF m = n THEN sub ELSE node.ents[m]])

\* fs.existsSync
ExistsSync(t, p) == Lookup(t, p).kind # "none"

\* fs.statSync(p).isDirectory()
IsDirectory(t, p) == Lookup(t, p).kind = "dir"

\* fs.readFileSync(p, 'utf8')
ReadFileSync(t, p) == Lookup(t, p).content

\* The order fs.readdirSync lists names in is the file system's own: the
\* model lists them in the order of NameOrder, or in the reverse order.
NameOrder == <<".git", "a", "b", "css", "hts-cache", "httrack-index.html",
               "index.html", "loop", "old.html", "original-index.html",
               "page.html", "readme.txt", "site-backup", "sub", "up",
               "www.miracles-of-quran.com", "x">>

RECURSIVE Filter(_, _)
Filter(names, S) ==
    IF names = <<>> THEN <<>>
    ELSE IF Head(names) \in S THEN <<Head(names)>> \o Filter(Tail(names), S)
    ELSE Filter(Tail(names), S)

Reverse(q) == [i \in 1..Len(q) |-> q[Len(q) + 1 - i]]

\* fs.readdirSync(p) of a directory
ReaddirSync(t, p, reversed) ==
    LET inOrder == Filter(NameOrder, Names(Lookup(t, p)))
    IN  IF reversed THEN Reverse(inOrder) ELSE inOrder

\* The result of a call that may throw: the tree afterwards, and whether
\* the call threw.
Ok(t) == [fs |-> t, threw |-> FALSE]
Threw(t) == [fs |-> t, threw |-> TRUE]

\* fs.renameSync(src, dest): src exists.  It throws when dest's parent is
\* no directory (ENOTDIR), when a file is renamed onto a directory (EISDIR),
\* a directory onto a file (ENOTDIR) or onto a directory with entries
\* (ENOTEMPTY); otherwise dest is replaced.
RenameSync(t, src, dest) ==
    LET s == Lookup(t, src)
        d == Lookup(t, dest)
    IN  IF Lookup(t, Parent(dest)).kind # "dir" THEN Threw(t)
        ELSE IF d.kind = "dir" /\ (s.kind = "file" \/ Names(d) # {}) THEN Threw(t)
        ELSE IF d.kind = "file" /\ s.kind = "dir" THEN Threw(t)
        ELSE Ok(Update(Update(t, src, NoNode), dest, s))

\* fs.unlinkSync(p): throws on a directory (EISDIR or EPERM)
UnlinkSync(t, p) ==
    IF Lookup(t, p).kind = "file" THEN Ok(Update(t, p, NoNode)) ELSE Threw(t)

\* fs.rmdirSync(p) of an empty directory
RmdirSync(t, p) == Update(t, p, NoNode)


----------------------------------------------------------------------------
(* PathFixer.mergeDirectories *)

RECURSIVE MergeDirectories(_, _, _, _)
RECURSIVE MergeLoop(_, _, _, _, _)

\* one iteration of the loop of mergeDirectories
MergeItem(t, src, dest, item, reversed) ==
    LET srcPath == Join(src, item)
        destPath == Join(dest, item)
    IN  IF ExistsSync(t, destPath)
            THEN IF IsDirectory(t, srcPath) /\ IsDirectory(t, destPath)
                    THEN MergeDirectories(t, srcPath, destPath, reversed)
                    ELSE LET u == UnlinkSync(t, destPath)
                         IN  IF u.threw THEN u ELSE RenameSync(u.fs, srcPath, destPath)
            ELSE RenameSync(t, srcPath, destPath)

\* the loop: an exception leaves it, and mergeDirectories, at once
MergeLoop(t, src, dest, list, reversed) ==
    IF list = <<>> THEN Ok(t)
    ELSE LET r == MergeItem(t, src, dest, Head(list), reversed)
         IN  IF r.threw THEN r ELSE MergeLoop(r.fs, src, dest, Tail(list), reversed)

MergeDirectories(t, src, dest, reversed) ==
    LET r == MergeLoop(t, src, dest, ReaddirSync(t, src, reversed), reversed)
    IN  IF r.threw THEN r
        ELSE IF ReaddirSync(r.fs, src, reversed) = <<>> THEN Ok(RmdirSync(r.fs, src))
        ELSE r

----------------------------------------------------------------------------
(* PathFixer.moveAndFixStructure *)

sourceDir == <<>>
SUBDIR == "www.miracles-of-quran.com"
miraculesSubDir == Join(sourceDir, SUBDIR)

INDEX == "index.html"
HTTRACK_INDEX == "httrack-index.html"
ORIGINAL_INDEX == "original-index.html"

outsideIndex == Join(sourceDir, INDEX)
insideIndex == Join(miraculesSubDir, INDEX)

UpperCase == <<"A", "B", "C", "D", "E", "F", "G", "H", "I", "J", "K", "L", "M", "N", "O", "P", "Q", "R", "S", "T", "U", "V", "W", "X", "Y", "Z">>
LowerCase == <<"a", "b", "c", "d", "e", "f", "g", "h", "i", "j", "k", "l", "m", "n", "o", "p", "q", "r", "s", "t", "u", "v", "w", "x", "y", "z">>

\* String.prototype.toLowerCase
ToLowerCase(str) ==
    [i \in 1..Len(str) |->
        IF \E k \in 1..Len(UpperCase) : UpperCase[k] = str[i]
            THEN LowerCase[CHOOSE k \in 1..Len(UpperCase) : UpperCase[k] = str[i]]
            ELSE str[i]]

Str_httrack == <<"h", "t", "t", "r", "a", "c", "k">>
Str_mirror == <<"m", "i", "r", "r", "o", "r">>
Str_htslog == <<"h", "t", "s", "-", "l", "o", "g", ".", "t", "x", "t">>

LooksLikeHTTrackNoMirror(outsideContent) ==
    \/ Includes(ToLowerCase(outsideContent), Str_httrack)
    \/ Includes(outsideContent, Str_htslog)

\* the condition at lines 183-185
LooksLikeHTTrack(outsideContent) ==
    \/ Includes(ToLowerCase(outsideContent), Str_httrack)
    \/ Includes(ToLowerCase(outsideContent), Str_mirror)
    \/ Includes(outsideContent, Str_htslog)

\* lines 175-206: both index.html files exist
ResolveIndexConflict(t) ==
    LET outsideContent == ReadFileSync(t, outsideIndex)
        backup == IF LooksLikeHTTrack(outsideContent)
                    THEN Join(sourceDir, HTTRACK_INDEX)
                    ELSE Join(sourceDir, ORIGINAL_INDEX)
        r == RenameSync(t, outsideIndex, backup)
    IN  IF r.threw THEN r ELSE RenameSync(r.fs, insideIndex, outsideIndex)

\* lines 214-232: the body of the loop for one item other than index.html;
\* the try block's result, the catch having logged what threw
MoveOne(t, item, reversed) ==
    LET srcPath == Join(miraculesSubDir, item)
        destPath == Join(sourceDir, item)
    IN  IF ExistsSync(t, destPath)
            THEN IF IsDirectory(t, srcPath)
                    THEN MergeDirectories(t, srcPath, destPath, reversed)
                    ELSE LET u == UnlinkSync(t, destPath)
                         IN  IF u.threw THEN u ELSE RenameSync(u.fs, srcPath, destPath)
            ELSE RenameSync(t, srcPath, destPath)

\* lines 163-209: the subdirectory check, the index.html conflict and the
\* listing of the subdirectory; an exception of the conflict's renames
\* leaves moveAndFixStructure
Start ==
    /\ pc = "start"
    /\ IF ~ExistsSync(fs, miraculesSubDir)
          THEN /\ pc' = "done"
               /\ returned' = FALSE
               /\ UNCHANGED <<fs, items>>
          ELSE LET r == IF ExistsSync(fs, outsideIndex) /\ ExistsSync(fs, insideIndex)
                           THEN ResolveIndexConflict(fs)
                           ELSE Ok(fs)
               IN  /\ fs' = r.fs
                   /\ pc' = IF r.threw THEN "threw" ELSE "listed"
                   /\ items' = IF r.threw THEN <<>>
                               ELSE ReaddirSync(r.fs, miraculesSubDir, listReversed)
                   /\ UNCHANGED returned
    /\ UNCHANGED <<fs0, listReversed, errors, docVars, scanVars>>

\* lines 211-233: one iteration of the loop
MoveItem ==
    /\ pc \in {"listed", "moving"}
    /\ items # <<>>
    /\ LET item == Head(items) IN
          IF item = INDEX
             THEN UNCHANGED <<fs, errors>>
             ELSE LET r == MoveOne(fs, item, listReversed)
                  IN  /\ fs' = r.fs
                      /\ errors' = IF r.threw THEN errors \cup {item} ELSE errors
    /\ items' = Tail(items)
    /\ pc' = "moving"
    /\ UNCHANGED <<fs0, listReversed, returned, docVars, scanVars>>

\* lines 235-245: the subdirectory is removed when it is empty
RemoveSubdir ==
    /\ pc \in {"listed", "moving"}
    /\ items = <<>>
    /\ fs' = IF ReaddirSync(fs, miraculesSubDir, listReversed) = <<>>
                THEN RmdirSync(fs, miraculesSubDir)
                ELSE fs
    /\ pc' = "done"
    /\ returned' = TRUE
    /\ UNCHANGED <<fs0, listReversed, items, errors, docVars, scanVars>>

----------------------------------------------------------------------------
(* PathFixer.getAllHtmlFiles and RemoveFooterSection.getAllHtmlFiles *)

\* a symbolic link (or junction) to the directory at path target
Link(target) == [kind |-> "link", content |-> target, ents |-> <<>>]

\* the node a path names once the operating system has followed the links
\* on it, at most fuel of them (ELOOP beyond)
RECURSIVE Resolve(_, _, _, _)
Resolve(t, node, p, fuel) ==
    IF node.kind = "link"
        THEN IF fuel = 0 THEN NoNode
             ELSE Resolve(t, Lookup(t, node.content), p, fuel - 1)
    ELSE IF p = <<>> THEN node
    ELSE IF Head(p) \in Names(node) THEN Resolve(t, node.ents[Head(p)], Tail(p), fuel)
    ELSE NoNode

\* the real path of the directory a path names (fs.realpathSync); the scan
\* never calls it, the properties do
RECURSIVE RealPath(_, _, _, _)
RealPath(t, done, p, fuel) ==
    IF Lookup(t, done).kind = "link"
        THEN IF fuel = 0 THEN done
             ELSE RealPath(t, Lookup(t, done).content, p, fuel - 1)
    ELSE IF p = <<>> THEN done
    ELSE RealPath(t, Append(done, Head(p)), Tail(p), fuel)

MaxLinks == 3       \* links the operating system follows on one path
MaxPathLen == 5     \* segments of the longest path it accepts (ENAMETOOLONG)

\* fs.readdirSync(dir, { withFileTypes: true }) throws when dir is no
\* directory or cannot be reached
CanReaddir(t, dir) ==
    /\ Len(dir) <= MaxPathLen
    /\ Resolve(t, t, dir, MaxLinks).kind = "dir"

DirentNames(t, dir, reversed) ==
    LET inOrder == Filter(NameOrder, Names(Resolve(t, t, dir, MaxLinks)))
    IN  IF reversed THEN Reverse(inOrder) ELSE inOrder

\* Dirent.isDirectory() of the stat of what the entry points to
IsDirectoryFollowingLinks(t, dir, name) ==
    Resolve(t, t, Join(dir, name), MaxLinks).kind = "dir"

\* Dirent.isDirectory(): the type of the entry itself, a link is no directory
DirentIsDirectory(t, dir, name) ==
    Resolve(t, t, dir, MaxLinks).ents[name].kind = "dir"

\* item.name.startsWith('.') || item.name === 'node_modules' ||
\* item.name.includes('backup') || item.name === 'hts-cache'
Skipped(name) == name \in {".git", "node_modules", "site-backup", "hts-cache"}

\* item.name.endsWith('.html')
EndsWithHtml(name) == name \in {"index.html", "old.html", "page.html"}

\* the call getAllHtmlFiles(dir, visited) up to its loop, lines 13-27,
\* made with the calls of below in progress
Enter(dir, below) ==
    IF dir \in visited
        THEN /\ stack' = below
             /\ UNCHANGED <<visited, readLog>>
        ELSE /\ visited' = visited \cup {dir}
             /\ IF CanReaddir(fs, dir)
                   THEN /\ stack' = <<[dir |-> dir,
                                      items |-> DirentNames(fs, dir, listReversed)]>>
                                    \o below
                        /\ readLog' = Append(readLog, RealPath(fs, <<>>, dir, MaxLinks))
                   ELSE /\ stack' = below
                        /\ UNCHANGED readLog

\* execute's call getAllHtmlFiles(this.sourceDir)
ScanStart ==
    /\ pc = "scan"
    /\ steps = 0
    /\ Enter(sourceDir, <<>>)
    /\ steps' = 1
    /\ UNCHANGED <<files, fs, fs0, listReversed, pc, items, errors, returned, docVars>>

\* lines 29-45: one iteration of the loop of the innermost call
ScanItem ==
    /\ pc = "scan"
    /\ stack # <<>>
    /\ Head(stack).items # <<>>
    /\ LET frame == Head(stack)
           name == Head(frame.items)
           fullPath == Join(frame.dir, name)
           rest == <<[frame EXCEPT !.items = Tail(frame.items)]>> \o Tail(stack)
       IN  IF Skipped(name)
              THEN /\ stack' = rest
                   /\ UNCHANGED <<visited, files, readLog>>
           ELSE IF DirentIsDirectory(fs, frame.dir, name)
              THEN /\ Enter(fullPath, rest)
                   /\ UNCHANGED files
           ELSE IF EndsWithHtml(name)
              THEN /\ files' = Append(files, fullPath)
                   /\ stack' = rest
                   /\ UNCHANGED <<visited, readLog>>
           ELSE /\ stack' = rest
                /\ UNCHANGED <<visited, files, readLog>>
    /\ steps' = steps + 1
    /\ UNCHANGED <<fs, fs0, listReversed, pc, items, errors, returned, docVars>>

\* line 50: the innermost call returns; the outermost returns the result
ScanReturn ==
    /\ pc = "scan"
    /\ steps > 0
    /\ \/ stack = <<>>
       \/ stack # <<>> /\ Head(stack).items = <<>>
    /\ stack' = IF stack = <<>> THEN stack ELSE Tail(stack)
    /\ pc' = IF stack = <<>> \/ Tail(stack) = <<>> THEN "scanned" ELSE pc
    /\ steps' = steps + 1
    /\ UNCHANGED <<visited, files, readLog, fs, fs0, listReversed, items, errors,
                   returned, docVars>>

----------------------------------------------------------------------------
(* The trees moveAndFixStructure is run on *)

\* a directory of the entries of f that are nodes
MkDir(f) == Dir([n \in {m \in DOMAIN f : f[m].kind # "none"} |-> f[n]])

OuterContents == {<<"H", "T", "T", "r", "a", "c", "k">>,
                  <<"S", "i", "t", "e", " ", "M", "i", "r", "r", "o", "r">>,
                  <<"s", "e", "e", " ", "h", "t", "s", "-", "l", "o", "g", ".", "t", "x", "t">>,
                  <<"s", "e", "e", " ", "H", "T", "S", "-", "L", "O", "G", ".", "T", "X", "T">>,
                  <<"W", "e", "l", "c", "o", "m", "e">>}
InnerContent == <<"h", "o", "m", "e", " ", "p", "a", "g", "e">>
RootText == <<"r">>     \* the text of the root's other files
SubText == <<"s">>      \* the text of the subdirectory's other files

\* css/a: missing, a file, an empty directory or a directory with a file x
ChildOptions(text) ==
    {NoNode, File(text), Dir(<<>>), MkDir([n \in {"x"} |-> File(text)])}

SubCss ==
    {NoNode, File(SubText)} \cup
    {MkDir([n \in {"a", "b"} |-> IF n = "a" THEN a ELSE b]) :
        a \in ChildOptions(SubText), b \in {NoNode, File(SubText)}}

RootCss ==
    {NoNode, File(RootText)} \cup
    {MkDir([n \in {"a"} |-> a]) : a \in ChildOptions(RootText)}

\* index.html and the backup names in the subdirectory are regular files
\* where they exist; the root's backup names may be taken by a directory
SubTrees ==
    {MkDir([n \in {INDEX, HTTRACK_INDEX, ORIGINAL_INDEX, "css"} |->
            CASE n = INDEX -> i
              [] n = HTTRACK_INDEX -> h
              [] n = ORIGINAL_INDEX -> o
              [] OTHER -> c]) :
        i \in {NoNode, File(InnerContent)},
        h \in {NoNode, File(SubText)},
        o \in {NoNode, File(SubText)},
        c \in SubCss}

RootTrees ==
    {MkDir([n \in {INDEX, HTTRACK_INDEX, ORIGINAL_INDEX, "css", SUBDIR} |->
            CASE n = INDEX -> i
              [] n = HTTRACK_INDEX -> h
              [] n = ORIGINAL_INDEX -> o
              [] n = "css" -> c
              [] OTHER -> sub]) :
        i \in {NoNode} \cup {File(t) : t \in OuterContents},
        h \in {NoNode, File(RootText), Dir(<<>>)},
        o \in {NoNode, File(RootText), Dir(<<>>)},
        c \in RootCss,
        sub \in SubTrees \cup {NoNode}}

\* the trees getAllHtmlFiles is run on: links lead back to the root or to sub
LinkOptions == {NoNode, Link(<<>>), Link(<<"sub">>)}

ScanSubDirs ==
    {MkDir([n \in {"page.html", "up", "a"} |->
            CASE n = "page.html" -> f
              [] n = "up" -> l
              [] OTHER -> d]) :
        f \in {NoNode, File(SubText)},
        l \in LinkOptions,
        d \in {NoNode, MkDir([n \in {"page.html"} |-> File(SubText)])}}

ScanTrees ==
    {MkDir([n \in {"index.html", "old.html", "loop", "hts-cache", "sub"} |->
            CASE n = "index.html" -> f
              [] n = "old.html" -> o
              [] n = "loop" -> l
              [] n = "hts-cache" -> c
              [] OTHER -> d]) :
        f \in {NoNode, File(RootText)},
        o \in {NoNode, File(RootText), Link(<<>>)},
        l \in LinkOptions,
        c \in {NoNode, MkDir([n \in {"index.html"} |-> File(RootText)])},
        d \in ScanSubDirs \cup {NoNode}}

----------------------------------------------------------------------------
(* Specifications: one per tool component; the variables of the others rest *)

InitDoc ==
    /\ content \in SeqsUpTo(PathTokens, MaxLen) \cup SeqsUpTo(CoreTokens, MaxCoreLen)
                    \cup SeqsUpTo(DocTokens, MaxDocLen)
    /\ before = content
    /\ filePath = rootPath
    /\ tool = "none"
    /\ passes = 0
    /\ wrote = FALSE
    /\ processedFiles = 0
    /\ fs = NoNode /\ fs0 = NoNode /\ listReversed = FALSE /\ pc = "idle"
    /\ items = <<>> /\ errors = {} /\ returned = FALSE
    /\ visited = {} /\ stack = <<>> /\ files = <<>> /\ readLog = <<>> /\ steps = 0

NextDoc == FixPathsInHtml \/ ProcessFile

SpecDoc == InitDoc /\ [][NextDoc]_vars

InitMove ==
    /\ fs0 \in RootTrees
    /\ fs = fs0
    /\ listReversed \in BOOLEAN
    /\ pc = "start"
    /\ items = <<>>
    /\ errors = {}
    /\ returned = FALSE
    /\ content = <<>> /\ before = <<>> /\ filePath = rootPath /\ tool = "none"
    /\ passes = 0 /\ wrote = FALSE /\ processedFiles = 0
    /\ visited = {} /\ stack = <<>> /\ files = <<>> /\ readLog = <<>> /\ steps = 0

NextMove == Start \/ MoveItem \/ RemoveSubdir

SpecMove == InitMove /\ [][NextMove]_vars

InitScan ==
    /\ fs0 \in ScanTrees
    /\ fs = fs0
    /\ listReversed \in BOOLEAN
    /\ pc = "scan"
    /\ visited = {}
    /\ stack = <<>>
    /\ files = <<>>
    /\ readLog = <<>>
    /\ steps = 0
    /\ items = <<>> /\ errors = {} /\ returned = FALSE
    /\ content = <<>> /\ before = <<>> /\ filePath = rootPath /\ tool = "none"
    /\ passes = 0 /\ wrote = FALSE /\ processedFiles = 0

NextScan == ScanStart \/ ScanItem \/ ScanReturn

SpecScan == InitScan /\ [][NextScan]_vars

----------------------------------------------------------------------------
(* Properties of the two transformers, under SpecDoc *)

\* the depth the file was placed at: its directory segments below the root
PlacedDepth == Cardinality({i \in 1..Len(filePath) : filePath[i] = "dir"})

CountTraversal(s) ==
    Cardinality({i \in 1..(Len(s) - 2) : SubSeq(s, i, i + 2) = Traversal})

\* d parent-traversal tokens, written out character by character
TraversalTimes(d) == [i \in 1..(3 * d) |-> IF i % 3 = 0 THEN SLASH ELSE DOT]

RECURSIVE Flatten(_)
Flatten(ss) == IF ss = <<>> THEN <<>> ELSE Head(ss) \o Flatten(Tail(ss))

\* s with the text at every position where "../" starts replaced by rep,
\* stated position by position
EveryTraversalReplaced(s, rep) ==
    LET starts(i) == i >= 1 /\ i + 2 <= Len(s) /\ SubSeq(s, i, i + 2) = Traversal
        piece(i) == IF starts(i) THEN rep
                    ELSE IF starts(i - 1) \/ starts(i - 2) THEN <<>>
                    ELSE <<s[i]>>
    IN  Flatten([i \in 1..Len(s) |-> piece(i)])

\* C1 (as claimed): a second fixPathsInHtml pass over the output of the first
\* changes nothing: it writes nothing and does not increment processedFiles.
C1_SecondPassIsNoOp ==
    (tool = "fix" /\ passes = 2) => (content = before /\ ~wrote)

HasWidget(s) == GoogleTranslateMatch(s) # <<>>

CountToken(s, t) == Cardinality({i \in 1..Len(s) : s[i] = t})

WidgetRightBeforeBodyClose(s, widget) ==
    \E i \in 1..Len(s) :
        SubSeq(s, i, i + Len(widget) + 1) = widget \o <<WRAP_CLOSE, BODY_CLOSE>>

\* a document that ends with its only </body> and closes every footer section
ClosedDocument(s) ==
    /\ s # <<>> /\ s[Len(s)] = BODY_CLOSE /\ CountToken(s, BODY_CLOSE) = 1
    /\ \A i \in 1..Len(s) :
          s[i] = FOOTER_OPEN => \E j \in (i + 1)..Len(s) : s[j] = SECTION_CLOSE

\* C4 (as claimed, of the documents that end with their only </body> and
\* close their footer section): a document with the footer marker and a
\* widget fragment comes out of processFile without the marker, still with
\* the widget's container, and with the widget exactly once, right before
\* </body>.
C4_FooterRemovedWidgetKept ==
    (tool = "footer" /\ passes = 1 /\ IncludesMarker(before) /\ HasWidget(before)
        /\ ClosedDocument(before)) =>
        /\ ~IncludesMarker(content)
        /\ CountToken(content, GTE) = 1
        /\ WidgetRightBeforeBodyClose(content, GoogleTranslateMatch(before))

NoTraversal(s) == ~Includes(s, Traversal)

NoQuotedOldDomain(s) ==
    /\ \A q \in {DQ, SQ} : ~Includes(s, <<q, OLD_DOMAIN, SLASH>>)
    /\ \A q \in {DQ, SQ} : ~Includes(s, <<q, SLASH, OLD_DOMAIN, SLASH>>)

\* C5 (as claimed): a file with neither the footer marker nor any "../" is
\* left identical, and not written, by a pass of either tool.
C5_NoOpSafety ==
    (passes >= 1 /\ ~IncludesMarker(before) /\ NoTraversal(before)) =>
        (content = before /\ ~wrote)

\* C5 (amended): a file with neither the footer marker, nor any "../", nor a
\* quoted reference to the old domain directory (a quote, an optional "/",
\* then "www.miracles-of-quran.com/") is left identical, and not written, by
\* a pass of either tool.
C5_NoOpSafetyAmended ==
    (passes >= 1 /\ ~IncludesMarker(before) /\ NoTraversal(before)
        /\ NoQuotedOldDomain(before)) =>
        (content = before /\ ~wrote)

C5_Witness ==
    /\ tool = "fix" /\ passes = 1
    /\ before = <<DQ, OLD_DOMAIN, DOT>>
    /\ PlacedDepth = 2
    /\ content = before /\ ~wrote

----------------------------------------------------------------------------
(* Properties of moveAndFixStructure, under SpecMove *)

sub0 == Lookup(fs0, miraculesSubDir)
outer0 == ReadFileSync(fs0, outsideIndex)
inner0 == Lookup(fs0, insideIndex)

BothIndexExisted == ExistsSync(fs0, outsideIndex) /\ ExistsSync(fs0, insideIndex)

Returned == pc = "done" /\ returned

\* the three markers, each sought without regard to case
MarkedIgnoringCase(text) ==
    \E m \in {Str_httrack, Str_mirror, Str_htslog} : Includes(ToLowerCase(text), m)

\* "httrack" and "mirror" sought without regard to case, "hts-log.txt" as written
MarkedAsWritten(text) ==
    \/ \E m \in {Str_httrack, Str_mirror} : Includes(ToLowerCase(text), m)
    \/ Includes(text, Str_htslog)

ConflictResolvedTo(backup) ==
    /\ Lookup(fs, Join(sourceDir, backup)) = File(outer0)
    /\ Lookup(fs, outsideIndex) = inner0
    /\ ~ExistsSync(fs, insideIndex)

\* C2 (as claimed): with both index.html files, the outer one is renamed to
\* httrack-index.html when its text holds "httrack", "mirror" or
\* "hts-log.txt" in any case, to original-index.html otherwise, and the inner
\* one becomes the root index.html.
C2_IndexConflict ==
    (pc = "listed" /\ BothIndexExisted) =>
        ConflictResolvedTo(IF MarkedIgnoringCase(outer0)
                              THEN HTTRACK_INDEX ELSE ORIGINAL_INDEX)

\* C2 (amended): with both index.html files, once the two renames are done,
\* the outer one is httrack-index.html when its text holds "httrack" or
\* "mirror" in any case or "hts-log.txt" exactly as written, it is
\* original-index.html otherwise, and the inner one is the root index.html.
C2_IndexConflictAmended ==
    (pc = "listed" /\ BothIndexExisted) =>
        ConflictResolvedTo(IF MarkedAsWritten(outer0)
                              THEN HTTRACK_INDEX ELSE ORIGINAL_INDEX)

C2_Witness ==
    /\ pc = "listed" /\ BothIndexExisted
    /\ outer0 = <<"s", "e", "e", " ", "H", "T", "S", "-", "L", "O", "G", ".", "T", "X", "T">>
    /\ ConflictResolvedTo(ORIGINAL_INDEX)
    /\ ~ExistsSync(fs, Join(sourceDir, HTTRACK_INDEX))

\* the union of directories d and s, an entry of s winning over d's of that name
RECURSIVE UnionOf(_, _)
UnionOf(d, s) ==
    Dir([n \in Names(d) \cup Names(s) |->
            IF n \notin Names(s) THEN d.ents[n]
            ELSE IF n \notin Names(d) THEN s.ents[n]
            ELSE IF d.ents[n].kind = "dir" /\ s.ents[n].kind = "dir"
                THEN UnionOf(d.ents[n], s.ents[n])
            ELSE s.ents[n]])

\* C3 (as claimed): every entry of the subdirectory whose name the root has
\* too ends as the union of the two when both are directories, and as the
\* source entry when either is a file; it is no longer in the subdirectory.
C3_MergeOnCollision ==
    Returned =>
        \A n \in Names(sub0) \cap Names(fs0) :
            LET s == sub0.ents[n]
                d == fs0.ents[n]
            IN  /\ Lookup(fs, Join(sourceDir, n)) =
                      IF s.kind = "dir" /\ d.kind = "dir" THEN UnionOf(d, s) ELSE s
                /\ ~ExistsSync(fs, Join(miraculesSubDir, n))

\* a child of a merged directory whose own move throws: a file onto a directory
ChildThrows(n, c) ==
    /\ Lookup(fs0, <<SUBDIR, n, c>>).kind = "file"
    /\ Lookup(fs0, <<n, c>>).kind = "dir"

\* C8 (as claimed): an entry whose move fails stops no other: every other
\* entry of the subdirectory is moved, and so is every other child of a
\* directory that mergeDirectories was merging when a child of it failed.
C8_ErrorContained ==
    Returned =>
        /\ \A n \in Names(sub0) \ ({INDEX} \cup errors) :
              /\ ~ExistsSync(fs, Join(miraculesSubDir, n))
              /\ ExistsSync(fs, Join(sourceDir, n))
        /\ \A n \in errors :
              (sub0.ents[n].kind = "dir" /\ Lookup(fs0, <<n>>).kind = "dir") =>
                 \A c \in Names(sub0.ents[n]) :
                    ~ChildThrows(n, c) =>
                       /\ ~ExistsSync(fs, <<SUBDIR, n, c>>)
                       /\ ExistsSync(fs, <<n, c>>)

\* C9 (as claimed): when nothing failed, every name the subdirectory held,
\* index.html too, is at the root when moveAndFixStructure returns, and the
\* subdirectory is gone.
C9_CompleteMigration ==
    (Returned /\ errors = {}) =>
        /\ \A n \in Names(sub0) : ExistsSync(fs, Join(sourceDir, n))
        /\ ~ExistsSync(fs, miraculesSubDir)

\* C10 (as claimed): with both index.html files at the start, the root holds
\* the backup, with the outer index.html's original text, when
\* moveAndFixStructure returns.
C10_BackupPreserved ==
    (Returned /\ BothIndexExisted) =>
        \E b \in {HTTRACK_INDEX, ORIGINAL_INDEX} :
            Lookup(fs, Join(sourceDir, b)) = File(outer0)

----------------------------------------------------------------------------
(* Properties of getAllHtmlFiles, under SpecScan *)

NoRepeat(q) == \A i, j \in 1..Len(q) : i # j => q[i] # q[j]

\* the steps a scan that enters every directory once takes below a node
RECURSIVE ScanSteps(_)
RECURSIVE SumSteps(_, _)
SumSteps(node, names) ==
    IF names = <<>> THEN 0
    ELSE 1 + ScanSteps(node.ents[Head(names)]) + SumSteps(node, Tail(names))
ScanSteps(node) ==
    IF node.kind = "dir" THEN 1 + SumSteps(node, Filter(NameOrder, Names(node))) ELSE 0

ReachedThroughLink(path) ==
    \E k \in 0..(Len(path) - 1) : Lookup(fs, SubSeq(path, 1, k)).kind # "dir"

\* C7: on every tree, also one with a link back to an ancestor, the scan
\* ends (it is never stuck before it has returned, and takes no more steps
\* than one visit of every directory needs), lists no directory twice, and
\* returns no file twice and none through a link.
C7_CycleSafe ==
    /\ pc = "scanned" \/ ENABLED NextScan
    /\ steps <= 1 + ScanSteps(fs)
    /\ NoRepeat(readLog)
    /\ NoRepeat([i \in 1..Len(files) |-> RealPath(fs, <<>>, files[i], MaxLinks)])
    /\ \A i \in 1..Len(files) : ~ReachedThroughLink(files[i])

C7_Witness ==
    /\ pc = "scanned"
    /\ Lookup(fs, <<"loop">>) = Link(<<>>)
    /\ Lookup(fs, <<"sub", "up">>) = Link(<<"sub">>)
    /\ files \in {<<<<"index.html">>, <<"sub", "page.html">>>>,
                  <<<<"sub", "page.html">>, <<"index.html">>>>}
====
